---- MODULE Spec2Model ----
(***************************************************************************)
(* Model of the BergLoom compaction core:                                  *)
(*   - split_n_vecs          (executor/datafusion/iceberg_file_task_scan)  *)
(*   - get_batch_stream      (executor/datafusion/iceberg_file_task_scan)  *)
(*   - get_tasks_from_table  (compaction/mod.rs)                           *)
(*   - full_compact          (compaction/mod.rs)                           *)
(*   - the equality-delete stage that consumes the decorated batches       *)
(* Each part has its own specification over the shared variables.          *)
(***************************************************************************)
EXTENDS Integers, Sequences, FiniteSets, TLC

\* ------------------------------------------------------------------------
\* Bounds of the model
\* ------------------------------------------------------------------------
MaxTasks == 4
MaxLength == 2
MaxSplit == 3
MaxScanTasks == 2
MaxFileRows == 2
MaxBacklog == 2
MaxParallelism == 1

MaxDataFiles == 2
MaxDeleteFiles == 1
MaxManifests == 2
MaxEntries == 3
MaxOutputFiles == 1
MaxOtherWrites == 1
MaxPlanTasks == 2
MaxDeletes == 1

MaxSeq == 2
MaxJoinRows == 1
MaxEqDeleteTasks == 2

\* mpsc::channel(100)
ChannelCapacity == 100

\* ------------------------------------------------------------------------
\* Generic helpers
\* ------------------------------------------------------------------------
\* the sequences over S of length at most n
SeqsUpTo(S, n) == UNION {[1..k -> S] : k \in 0..n}

RECURSIVE SumSeq(_)
SumSeq(s) == IF s = <<>> THEN 0 ELSE s[1] + SumSeq(Tail(s))

Swap(h, i, j) == [h EXCEPT ![i] = h[j], ![j] = h[i]]

Range(s) == {s[i] : i \in DOMAIN s}

VARIABLES
    \* ---- split_n_vecs ----
    file_scan_tasks,   \* the input Vec<FileScanTask>: records [file_id, length]
    split_num,         \* the requested number of groups
    heap,              \* BinaryHeap<Reverse<FileScanTaskGroup>>: its data vector
    next_task,         \* position of the `for file_task in file_scan_tasks` loop
    split_pc,          \* "push" | "assign" | "done" | "panic"
    groups             \* the returned Vec<Vec<FileScanTask>> (<<>> until done)

VARIABLES
    \* ---- get_batch_stream ----
    scan_tasks,             \* the partition's Vec<FileScanTask>
    need_seq_num,
    need_file_path_and_pos,
    read_file_parallelism,
    task_phase,             \* per task: "queued" (still in stream::iter) | "read" |
                            \* "send" (its future awaits read / send) | "sent" | "dropped"
    prod_state,             \* "idle" | "running" | "errsend" | "finished"
    prod_error,             \* the Err held by `result`: "none" | "read" | "internal"
    chan,                   \* messages buffered in the mpsc channel
    rx_alive,               \* chunk_rx (the consumer stream) has not been dropped
    cons_pc,                \* "idle" | "recv" | "next" | "end" | "error" | "dropped"
    cons_cur,               \* the message the inner `while let` is draining
    cons_read,              \* batches the current reader has produced so far
    index_start,            \* the consumer's running row index
    cur_rows,               \* rows the current reader has produced so far
    last_yield              \* what the consumer's latest step yielded (NoYield: nothing)

VARIABLES
    \* ---- get_tasks_from_table ----
    plan_pc,                 \* "idle" | "start" | "loop" | "done" | "err" | "panic"
    position_delete_files,   \* HashMap<String, FileScanTask>: entries [key, value]
    equality_delete_files,   \* HashMap<String, FileScanTask>: entries [key, value]
    data_files,              \* Vec<FileScanTask>
    input_file_scan_tasks    \* the returned InputFileScanTasks

VARIABLES
    \* ---- full_compact and the catalog it talks to ----
    catalog_snapshot,   \* the table's current snapshot in the catalog
    table,              \* the Table returned by catalog.load_table
    comp_pc,            \* "idle" | "load" | "old_files" | "plan" | "rewrite" |
                        \* "txn" | "apply" | "commit" | "done"
    old_data_files,     \* `data_files` of full_compact
    old_delete_files,   \* `delete_files` of full_compact
    output_data_files,  \* the executor's RewriteFilesResponse::data_files
    rewrite_action,     \* files added / marked for removal by the rewrite action
    comp_result,        \* "none" | "Ok" | "Err" | "panic"
    failed_step,        \* the step that ended the call early, or "none"
    commit_calls,       \* number of catalog commits the call has invoked
    other_writes        \* snapshots committed by other writers meanwhile

VARIABLES
    \* ---- the equality-delete stage over one data file and its deletes ----
    eq_pc,              \* "idle" | "scan" | "join" | "done"
    eq_data_task,       \* the Data FileScanTask and the key rows its reader yields
    eq_delete_tasks,    \* the EqualityDeletes FileScanTasks and their key rows
    eq_data_batch,      \* the data batch as the scan yields it (<<>> before)
    eq_delete_batches,  \* the delete batches as the scan yields them (<<>> before)
    eq_survivors        \* rows of the data batch that the stage lets through

splitVars == <<file_scan_tasks, split_num, heap, next_task, split_pc, groups>>

scanVars == <<scan_tasks, need_seq_num, need_file_path_and_pos, read_file_parallelism,
              task_phase, prod_state, prod_error, chan, rx_alive,
              cons_pc, cons_cur, cons_read, index_start, cur_rows, last_yield>>

planVars == <<plan_pc, position_delete_files, equality_delete_files, data_files,
              input_file_scan_tasks>>

compVars == <<catalog_snapshot, table, comp_pc, old_data_files, old_delete_files,
              output_data_files, rewrite_action, comp_result, failed_step,
              commit_calls, other_writes>>

joinVars == <<eq_pc, eq_data_task, eq_delete_tasks, eq_data_batch, eq_delete_batches,
              eq_survivors>>

vars == <<splitVars, scanVars, planVars, compVars, joinVars>>

notSplit == <<scanVars, planVars, compVars, joinVars>>
notScan == <<splitVars, planVars, compVars, joinVars>>
notPlan == <<splitVars, scanVars, compVars, joinVars>>
notComp == <<splitVars, scanVars, planVars, joinVars>>
notJoin == <<splitVars, scanVars, planVars, compVars>>

NoTask == [data_file_path |-> <<>>, data_file_content |-> "Data", sequence_number |-> 0,
           keys |-> <<>>]

IdleJoin ==
    /\ eq_pc = "idle"
    /\ eq_data_task = NoTask
    /\ eq_delete_tasks = <<>>
    /\ eq_data_batch = <<>>
    /\ eq_delete_batches = <<>>
    /\ eq_survivors = {}

NoSnapshot == [id |-> 0, by |-> "none", manifests |-> <<>>]
EmptyAction == [added |-> <<>>, deleted |-> <<>>]

IdleComp ==
    /\ catalog_snapshot = NoSnapshot
    /\ table = NoSnapshot
    /\ comp_pc = "idle"
    /\ old_data_files = <<>>
    /\ old_delete_files = <<>>
    /\ output_data_files = <<>>
    /\ rewrite_action = EmptyAction
    /\ comp_result = "none"
    /\ failed_step = "none"
    /\ commit_calls = 0
    /\ other_writes = 0

NoTasks == [data_files |-> <<>>, position_delete_files |-> <<>>,
            equality_delete_files |-> <<>>]

IdlePlan ==
    /\ plan_pc = "idle"
    /\ position_delete_files = <<>>
    /\ equality_delete_files = <<>>
    /\ data_files = <<>>
    /\ input_file_scan_tasks = NoTasks

IdleSplit ==
    /\ file_scan_tasks = <<>>
    /\ split_num = 0
    /\ heap = <<>>
    /\ next_task = 1
    /\ split_pc = "idle"
    /\ groups = <<>>

\* nothing yielded; Yield(..) is a batch or the error that ends the stream
NoYield == [kind |-> "none", task |-> 0, rows_before |-> 0, num_rows |-> 0, columns |-> <<>>]

IdleScan ==
    /\ scan_tasks = <<>>
    /\ need_seq_num = FALSE
    /\ need_file_path_and_pos = FALSE
    /\ read_file_parallelism = 1
    /\ task_phase = <<>>
    /\ prod_state = "idle"
    /\ prod_error = "none"
    /\ chan = <<>>
    /\ rx_alive = FALSE
    /\ cons_pc = "idle"
    /\ cons_cur = 0
    /\ cons_read = 0
    /\ index_start = 0
    /\ cur_rows = 0
    /\ last_yield = NoYield

\* ------------------------------------------------------------------------
\* split_n_vecs
\* ------------------------------------------------------------------------

\* FileScanTaskGroup::cmp : -1 (Less), 0 (Equal), 1 (Greater)
NatCmp(a, b) == IF a < b THEN -1 ELSE IF a = b THEN 0 ELSE 1

GroupCmp_TieByLargerIdx(self, other) ==
    IF self.total_length = other.total_length
    THEN NatCmp(other.idx, self.idx)
    ELSE NatCmp(self.total_length, other.total_length)

\* an order by the number of tasks of the group instead of its total length
GroupCmp_ByTaskCount(self, other) ==
    IF Len(self.tasks) = Len(other.tasks)
    THEN NatCmp(self.idx, other.idx)
    ELSE NatCmp(Len(self.tasks), Len(other.tasks))

GroupCmp(self, other) ==
    IF self.total_length = other.total_length
    THEN NatCmp(self.idx, other.idx)
    ELSE NatCmp(self.total_length, other.total_length)

\* The heap holds Reverse(group): Reverse(a).cmp(Reverse(b)) = b.cmp(a)
ReverseCmp_NotReversed(a, b) == GroupCmp(a, b)

ReverseCmp(a, b) == GroupCmp(b, a)
ReverseLe(a, b) == ReverseCmp(a, b) # 1
ReverseLt(a, b) == ReverseCmp(a, b) = -1
ReverseGe(a, b) == ReverseCmp(a, b) # -1

\* BinaryHeap::sift_up(start, pos), positions 0-based as in the library;
\* h[pos + 1] is the element at position pos.
RECURSIVE SiftUp(_, _, _)
SiftUp(h, start, pos) ==
    IF pos > start
    THEN LET parent == (pos - 1) \div 2
         IN IF ReverseLe(h[pos + 1], h[parent + 1])
            THEN h
            ELSE SiftUp(Swap(h, pos + 1, parent + 1), start, parent)
    ELSE h

\* BinaryHeap::sift_down_range(pos, end)
RECURSIVE SiftDownRange(_, _, _)
SiftDownRange(h, pos, end) ==
    LET child == 2 * pos + 1
        satEnd == IF end >= 2 THEN end - 2 ELSE 0
    IN IF child <= satEnd
       THEN LET c == child + (IF ReverseLe(h[child + 1], h[child + 2]) THEN 1 ELSE 0)
            IN IF ReverseGe(h[pos + 1], h[c + 1])
               THEN h
               ELSE SiftDownRange(Swap(h, pos + 1, c + 1), c, end)
       ELSE IF child = end - 1 /\ ReverseLt(h[pos + 1], h[child + 1])
            THEN Swap(h, pos + 1, child + 1)
            ELSE h

\* BinaryHeap::push
HeapPush(h, item) == SiftUp(Append(h, item), 0, Len(h))

\* PeekMut: mutate the root, then sift_down(0) when the guard is dropped
PeekMutAdd_SkipEmptyFile(h, file_task) ==
    LET root == h[1]
        changed == [h EXCEPT ![1] =
                      [root EXCEPT !.total_length = root.total_length + file_task.length,
                                   !.tasks = IF file_task.length = 0
                                             THEN root.tasks
                                             ELSE Append(root.tasks, file_task)]]
    IN SiftDownRange(changed, 0, Len(h))

\* a root that is mutated in place and never sifted down
PeekMutAdd_NoSiftDown(h, file_task) ==
    LET root == h[1]
    IN [h EXCEPT ![1] =
           [root EXCEPT !.total_length = root.total_length + file_task.length,
                        !.tasks = Append(root.tasks, file_task)]]

\* a group that takes its new task at the front
PeekMutAdd_Prepend(h, file_task) ==
    LET root == h[1]
        changed == [h EXCEPT ![1] =
                      [root EXCEPT !.total_length = root.total_length + file_task.length,
                                   !.tasks = <<file_task>> \o root.tasks]]
    IN SiftDownRange(changed, 0, Len(h))

PeekMutAdd(h, file_task) ==
    LET root == h[1]
        changed == [h EXCEPT ![1] =
                      [root EXCEPT !.total_length = root.total_length + file_task.length,
                                   !.tasks = Append(root.tasks, file_task)]]
    IN SiftDownRange(changed, 0, Len(h))

\* heap.into_vec().into_iter().map(|reverse_group| reverse_group.0.tasks).collect()
IntoVecTasks_DropEmpty(h) ==
    LET all == [i \in 1..Len(h) |-> h[i].tasks]
    IN SelectSeq(all, LAMBDA g : g # <<>>)

IntoVecTasks(h) == [i \in 1..Len(h) |-> h[i].tasks]

TaskLists ==
    {[i \in 1..Len(ls) |-> [file_id |-> i, length |-> ls[i]]] :
        ls \in SeqsUpTo(0..MaxLength, MaxTasks)}

InitSplit ==
    /\ file_scan_tasks \in TaskLists
    /\ split_num \in 0..MaxSplit
    /\ heap = <<>>
    /\ next_task = 1
    /\ split_pc = "push"
    /\ groups = <<>>
    /\ IdleScan
    /\ IdlePlan
    /\ IdleComp
    /\ IdleJoin

\* for idx in 0..split_num { heap.push(Reverse(FileScanTaskGroup{..})) }
PushGroup ==
    /\ split_pc = "push"
    /\ Len(heap) < split_num
    /\ heap' = HeapPush(heap, [idx |-> Len(heap), tasks |-> <<>>, total_length |-> 0])
    /\ UNCHANGED <<file_scan_tasks, split_num, next_task, split_pc, groups, notSplit>>

PushDone ==
    /\ split_pc = "push"
    /\ Len(heap) = split_num
    /\ split_pc' = "assign"
    /\ UNCHANGED <<file_scan_tasks, split_num, heap, next_task, groups, notSplit>>

\* one iteration of `for file_task in file_scan_tasks`
AssignTask ==
    /\ split_pc = "assign"
    /\ next_task <= Len(file_scan_tasks)
    /\ IF heap = <<>>
       THEN \* heap.peek_mut().unwrap() on an empty heap
            /\ split_pc' = "panic"
            /\ UNCHANGED <<heap, next_task>>
       ELSE /\ heap' = PeekMutAdd(heap, file_scan_tasks[next_task])
            /\ next_task' = next_task + 1
            /\ UNCHANGED split_pc
    /\ UNCHANGED <<file_scan_tasks, split_num, groups, notSplit>>

\* heap.into_vec().into_iter().map(|g| g.0.tasks).collect()
IntoVec ==
    /\ split_pc = "assign"
    /\ next_task > Len(file_scan_tasks)
    /\ groups' = IntoVecTasks(heap)
    /\ split_pc' = "done"
    /\ UNCHANGED <<file_scan_tasks, split_num, heap, next_task, notSplit>>

NextSplit == PushGroup \/ PushDone \/ AssignTask \/ IntoVec

SpecSplit == InitSplit /\ [][NextSplit]_vars

\* ------------------------------------------------------------------------
\* Properties of split_n_vecs
\* ------------------------------------------------------------------------
Assigned == SubSeq(file_scan_tasks, 1, next_task - 1)

Totals(h) == {h[i].total_length : i \in DOMAIN h}
MaxOf(S) == CHOOSE x \in S : \A y \in S : y <= x
MinOf(S) == CHOOSE x \in S : \A y \in S : x <= y

TaskLengthSum(ts) == SumSeq([i \in DOMAIN ts |-> ts[i].length])

\* Positions (g, k) of the returned vector that hold the task t
Places(gs, t) == {<<g, k>> \in (DOMAIN gs) \X (1..MaxTasks + 1) :
                     k \in DOMAIN gs[g] /\ gs[g][k] = t}

\* C2 as stated: split_n_vecs(tasks, N) returns exactly N groups for every
\* task list and every N (the call always returns, and returns N groups).
C2_ReturnsNGroupsForEveryInput ==
    /\ split_pc # "panic"
    /\ split_pc = "done" => Len(groups) = split_num

\* C2 amended: for N >= 1, and for N = 0 with the empty list, the call
\* returns and the result has exactly N groups (the groups beyond the tasks
\* are empty); the call panics only for N = 0 with a non-empty list.
C2_ExactlyNGroups ==
    /\ split_pc = "done" =>
          /\ Len(groups) = split_num
          /\ Cardinality({g \in DOMAIN groups : groups[g] # <<>>}) <= Len(file_scan_tasks)
    /\ split_pc = "panic" => split_num = 0 /\ file_scan_tasks # <<>>

C2_Witness ==
    /\ split_pc = "done"
    /\ split_num >= 2
    /\ Len(file_scan_tasks) \in 1..(split_num - 1)
    /\ \E g \in DOMAIN groups : groups[g] = <<>>

\* C3: for N >= 1 the concatenation of the returned groups is a permutation
\* of the input: every input task is at exactly one place of exactly one
\* group and the groups hold nothing else.
C3_NoLossNoDuplicate ==
    (split_pc = "done" /\ split_num >= 1) =>
        /\ \A i \in DOMAIN file_scan_tasks :
              Cardinality(Places(groups, file_scan_tasks[i])) = 1
        /\ SumSeq([g \in DOMAIN groups |-> Len(groups[g])]) = Len(file_scan_tasks)

C3_Witness ==
    /\ split_pc = "done"
    /\ split_num >= 2
    /\ Len(file_scan_tasks) > split_num
    /\ \E i \in DOMAIN file_scan_tasks : file_scan_tasks[i].length = 0
    /\ Cardinality({g \in DOMAIN groups : Len(groups[g]) >= 2}) >= 2

\* C4: after any prefix of the task list has been assigned, the largest
\* group total minus the smallest group total is at most the largest length
\* of a task assigned so far.
C4_BalancedWithinMaxTask ==
    (split_pc \in {"assign", "done"} /\ heap # <<>>) =>
        MaxOf(Totals(heap)) - MinOf(Totals(heap))
            <= MaxOf({0} \cup {Assigned[i].length : i \in DOMAIN Assigned})

C4_Witness ==
    /\ split_pc = "assign"
    /\ Len(heap) >= 3
    /\ Len(Assigned) > Len(heap)
    /\ MinOf(Totals(heap)) > 0
    /\ MaxOf(Totals(heap)) - MinOf(Totals(heap)) = MaxLength

\* C6: every task, in input order, goes to the group with the smallest total
\* length, among equals to the one with the smallest idx; that group grows by
\* the task and by its length, the other groups are untouched, and every
\* group's total_length is the sum of the lengths of its tasks.
GroupOf(h, idx) == CHOOSE g \in Range(h) : g.idx = idx

Smallest(h) ==
    CHOOSE g \in Range(h) :
        \A o \in Range(h) :
            \/ o.total_length > g.total_length
            \/ o.total_length = g.total_length /\ o.idx >= g.idx

C6_AssignStep ==
    (split_pc = "assign" /\ next_task' = next_task + 1) =>
        LET m == Smallest(heap)
            t == file_scan_tasks[next_task]
        IN /\ {g.idx : g \in Range(heap')} = 0..(split_num - 1)
           /\ Len(heap') = split_num
           /\ GroupOf(heap', m.idx) =
                 [m EXCEPT !.tasks = Append(m.tasks, t),
                           !.total_length = m.total_length + t.length]
           /\ \A i \in 0..(split_num - 1) :
                 i # m.idx => GroupOf(heap', i) = GroupOf(heap, i)

C6_TotalIsSum ==
    \A i \in DOMAIN heap : heap[i].total_length = TaskLengthSum(heap[i].tasks)

C6_SmallestGroupGetsTask == [][C6_AssignStep]_vars /\ []C6_TotalIsSum

\* a task has just been given to a group with idx > 0 although group 0 tied
\* with others earlier: two groups tie on the smallest non-zero total
C6_Witness ==
    /\ split_pc = "assign"
    /\ next_task > Len(heap)
    /\ Len(heap) >= 3
    /\ \E i, j \in DOMAIN heap :
          /\ heap[i].idx # heap[j].idx
          /\ heap[i].total_length = heap[j].total_length
          /\ heap[i].total_length = MinOf(Totals(heap))
          /\ heap[i].total_length > 0
          /\ Len(heap[i].tasks) # Len(heap[j].tasks)

NonEmptyGroups(h) == {i \in DOMAIN h : h[i].tasks # <<>>}
MinNat(a, b) == IF a <= b THEN a ELSE b

\* C23: when every task assigned so far has a positive length, exactly
\* min(number of tasks assigned, N) groups are non-empty: the first N tasks
\* go to N different groups; the returned vector has min(|tasks|, N)
\* non-empty groups.
C23_PositiveLengthsFillGroups ==
    /\ (split_pc = "assign" /\ \A i \in DOMAIN Assigned : Assigned[i].length > 0) =>
          Cardinality(NonEmptyGroups(heap)) = MinNat(Len(Assigned), split_num)
    /\ (split_pc = "done" /\ \A i \in DOMAIN file_scan_tasks : file_scan_tasks[i].length > 0) =>
          Cardinality({g \in DOMAIN groups : groups[g] # <<>>})
              = MinNat(Len(file_scan_tasks), split_num)

\* more tasks than groups, all of positive length, and no group is empty
C23_Witness ==
    /\ split_pc = "done"
    /\ split_num = 3
    /\ Len(file_scan_tasks) > split_num
    /\ \A i \in DOMAIN file_scan_tasks : file_scan_tasks[i].length > 0
    /\ \A g \in DOMAIN groups : groups[g] # <<>>

\* the first task is longer than all the other tasks together
FirstTaskDominates ==
    /\ file_scan_tasks # <<>>
    /\ file_scan_tasks[1].length > TaskLengthSum(Tail(file_scan_tasks))

\* C24: for N >= 2, when the first task is longer than all the other tasks
\* together, the returned group that holds it holds nothing else.
C24_DominantTaskIsAlone ==
    (split_pc = "done" /\ split_num >= 2 /\ FirstTaskDominates) =>
        \E g \in DOMAIN groups : groups[g] = <<file_scan_tasks[1]>>

\* two groups, a first task of length 2 and later tasks of lengths 1 and 0
C24_Witness ==
    /\ split_pc = "done"
    /\ split_num = 2
    /\ Len(file_scan_tasks) >= 3
    /\ FirstTaskDominates
    /\ TaskLengthSum(Tail(file_scan_tasks)) > 0
    /\ \E g \in DOMAIN groups : Len(groups[g]) >= 2

\* C25: inside every returned group the tasks are in the order in which
\* they were assigned, which is their relative order in the input list
\* (file_id is the task's position in the input).
C25_StableWithinGroup ==
    /\ \A i \in DOMAIN heap : \A j, k \in DOMAIN heap[i].tasks :
          j < k => heap[i].tasks[j].file_id < heap[i].tasks[k].file_id
    /\ \A g \in DOMAIN groups : \A j, k \in DOMAIN groups[g] :
          j < k => groups[g][j].file_id < groups[g][k].file_id

\* two groups were returned and one of them holds three tasks
C25_Witness ==
    /\ split_pc = "done"
    /\ split_num = 2
    /\ \E g \in DOMAIN groups : Len(groups[g]) = 3
    /\ \E g \in DOMAIN groups : Len(groups[g]) = 1

\* ------------------------------------------------------------------------
\* get_batch_stream: producer (spawned task), channel, consumer (try_stream!)
\* ------------------------------------------------------------------------
ContentTypes == {"Data", "PositionDeletes", "EqualityDeletes"}

\* the FileScanTasks of the partition: every task is a file of its own
\* (distinct data_file_path) with a sequence number of its own
ScanTaskLists ==
    {[i \in 1..Len(cs) |-> [data_file_path |-> <<"file", i>>,
                            data_file_content |-> cs[i],
                            sequence_number |-> i]] :
        cs \in SeqsUpTo(ContentTypes, MaxScanTasks)}

\* a RecordBatch as the reader yields it: one user column of num_rows values
ReaderBatch(rows) ==
    [num_rows |-> rows, columns |-> <<[name |-> "user", values |-> [r \in 1..rows |-> 0]]>>]

\* a sequence-number column that holds the row's index in the batch
AddSeqNumIntoBatch_RowIndex(batch, seq_num) ==
    [batch EXCEPT !.columns =
        Append(batch.columns, [name |-> "sys_hidden_seq_num",
                               values |-> [r \in 1..batch.num_rows |-> r]])]

\* add_seq_num_into_batch
AddSeqNumIntoBatch(batch, seq_num) ==
    [batch EXCEPT !.columns =
        Append(batch.columns, [name |-> "sys_hidden_seq_num",
                               values |-> [r \in 1..batch.num_rows |-> seq_num]])]

\* add_file_path_pos_into_batch
AddFilePathPosIntoBatch(batch, file_path, start) ==
    [batch EXCEPT !.columns =
        batch.columns \o
        <<[name |-> "file_path", values |-> [r \in 1..batch.num_rows |-> file_path]],
          [name |-> "pos", values |-> [r \in 1..batch.num_rows |-> start + r - 1]]>>]

\* a match that decorates every content type by the flags alone
DecorateBatch_FlagsOnly(batch, task, start) ==
    LET b1 == IF need_seq_num
              THEN AddSeqNumIntoBatch(batch, task.sequence_number)
              ELSE batch
    IN IF need_file_path_and_pos
       THEN AddFilePathPosIntoBatch(b1, task.data_file_path, start)
       ELSE b1

\* the match on data_file_content in the consumer loop
DecorateBatch(batch, task, start) ==
    IF task.data_file_content = "Data"
    THEN LET b1 == IF need_seq_num
                   THEN AddSeqNumIntoBatch(batch, task.sequence_number)
                   ELSE batch
         IN IF need_file_path_and_pos
            THEN AddFilePathPosIntoBatch(b1, task.data_file_path, start)
            ELSE b1
    ELSE IF task.data_file_content = "PositionDeletes"
    THEN batch
    ELSE AddSeqNumIntoBatch(batch, task.sequence_number)

\* index_start after one batch of the consumer loop
NextIndexStart(batch, task, start) ==
    IF task.data_file_content = "Data" /\ need_file_path_and_pos
    THEN start + batch.num_rows
    ELSE start

TaskIds == DOMAIN scan_tasks
InFlight == {i \in TaskIds : task_phase[i] \in {"read", "send"}}
Queued == {i \in TaskIds : task_phase[i] = "queued"}

\* try_for_each_concurrent(Some(limit)): a limit of zero means no limit
UnderLimit == read_file_parallelism = 0 \/ Cardinality(InFlight) < read_file_parallelism

InitScan ==
    /\ scan_tasks \in ScanTaskLists
    /\ need_seq_num \in BOOLEAN
    /\ need_file_path_and_pos \in BOOLEAN
    /\ read_file_parallelism \in 0..MaxParallelism
    /\ task_phase = [i \in DOMAIN scan_tasks |-> "queued"]
    /\ prod_state = "running"
    /\ prod_error = "none"
    /\ chan = <<>>
    /\ rx_alive = TRUE
    /\ cons_pc = "recv"
    /\ cons_cur = 0
    /\ cons_read = 0
    /\ index_start = 0
    /\ cur_rows = 0
    /\ last_yield = NoYield
    /\ IdleSplit
    /\ IdlePlan
    /\ IdleComp
    /\ IdleJoin

consVars == <<cons_pc, cons_cur, cons_read, index_start, cur_rows, last_yield>>

\* what the stream hands to the downstream plan: a batch of `task` (with the
\* number of rows of that file yielded before it) or an error
YieldBatch(task, before, batch) ==
    [kind |-> "batch", task |-> task, rows_before |-> before,
     num_rows |-> batch.num_rows, columns |-> batch.columns]

YieldError(task) == [NoYield EXCEPT !.kind = "error", !.task = task]
scanInput == <<scan_tasks, need_seq_num, need_file_path_and_pos, read_file_parallelism>>

\* the first Err of a task future ends try_for_each_concurrent: the stream is
\* emptied and the other running futures are dropped
FailProducer(kind) ==
    /\ task_phase' = [i \in TaskIds |->
                        IF task_phase[i] = "sent" THEN "sent" ELSE "dropped"]
    /\ prod_state' = "errsend"
    /\ prod_error' = kind

\* try_for_each_concurrent takes the next task of the stream and starts its future
StartTask ==
    /\ prod_state = "running"
    /\ Queued # {}
    /\ UnderLimit
    /\ LET i == MinOf(Queued)
       IN task_phase' = [task_phase EXCEPT ![i] = "read"]
    /\ UNCHANGED <<scanInput, prod_state, prod_error, chan, rx_alive, consVars, notScan>>

\* ArrowReaderBuilder::new(..).build().read(task_stream).await succeeds
ReadOk(i) ==
    /\ prod_state = "running"
    /\ task_phase[i] = "read"
    /\ task_phase' = [task_phase EXCEPT ![i] = "send"]
    /\ UNCHANGED <<scanInput, prod_state, prod_error, chan, rx_alive, consVars, notScan>>

\* ... or fails: map_err(to_datafusion_error)?
ReadErr(i) ==
    /\ prod_state = "running"
    /\ task_phase[i] = "read"
    /\ FailProducer("read")
    /\ UNCHANGED <<scanInput, chan, rx_alive, consVars, notScan>>

\* chunk_tx.send(Ok((batch_stream, file_path, content, sequence_number))).await
SendStream(i) ==
    /\ prod_state = "running"
    /\ task_phase[i] = "send"
    /\ IF rx_alive
       THEN /\ Len(chan) < ChannelCapacity
            /\ chan' = Append(chan, [ok |-> TRUE, task |-> i])
            /\ task_phase' = [task_phase EXCEPT ![i] = "sent"]
            /\ UNCHANGED <<prod_state, prod_error>>
       ELSE \* the receiver is gone: SendError -> DataFusionError::Internal
            /\ FailProducer("internal")
            /\ UNCHANGED chan
    /\ UNCHANGED <<scanInput, rx_alive, consVars, notScan>>

\* a producer that finishes as soon as the task stream is exhausted
ProducerOk_BeforeLastSend ==
    /\ prod_state = "running"
    /\ Queued = {}
    /\ prod_state' = "finished"
    /\ UNCHANGED <<scanInput, task_phase, prod_error, chan, rx_alive, consVars, notScan>>

\* try_for_each_concurrent returns Ok(()): stream exhausted, no future left
ProducerOk ==
    /\ prod_state = "running"
    /\ Queued = {}
    /\ InFlight = {}
    /\ prod_state' = "finished"
    /\ UNCHANGED <<scanInput, task_phase, prod_error, chan, rx_alive, consVars, notScan>>

\* if let Err(error) = result { let _ = chunk_tx.send(Err(error)).await; }
SendError ==
    /\ prod_state = "errsend"
    /\ IF rx_alive
       THEN /\ Len(chan) < ChannelCapacity
            /\ chan' = Append(chan, [ok |-> FALSE, task |-> 0])
       ELSE UNCHANGED chan
    /\ prod_state' = "finished"
    /\ UNCHANGED <<scanInput, task_phase, prod_error, rx_alive, consVars, notScan>>

\* a consumer that takes an Err message off the channel and goes on receiving
Recv_IgnoreError ==
    /\ cons_pc = "recv"
    /\ chan # <<>>
    /\ chan' = Tail(chan)
    /\ IF Head(chan).ok
       THEN /\ cons_cur' = Head(chan).task
            /\ cons_read' = 0
            /\ cur_rows' = 0
            /\ cons_pc' = "next"
            /\ last_yield' = NoYield
       ELSE UNCHANGED <<cons_pc, cons_cur, cons_read, cur_rows, last_yield>>
    /\ UNCHANGED <<scanInput, task_phase, prod_state, prod_error, rx_alive, index_start,
                   notScan>>

\* a consumer that takes the next stream while the current one has batches left
Recv_BeforeEndOfFile ==
    /\ cons_pc \in {"recv", "next"}
    /\ chan # <<>>
    /\ chan' = Tail(chan)
    /\ IF Head(chan).ok
       THEN /\ cons_cur' = Head(chan).task
            /\ cons_read' = 0
            /\ cur_rows' = 0
            /\ cons_pc' = "next"
            /\ last_yield' = NoYield
       ELSE /\ last_yield' = YieldError(0)
            /\ cons_pc' = "error"
            /\ UNCHANGED <<cons_cur, cons_read, cur_rows>>
    /\ rx_alive' = Head(chan).ok
    /\ UNCHANGED <<scanInput, task_phase, prod_state, prod_error, index_start, notScan>>

\* chunk_rx.recv().await yields Some(result); `result?` ends the stream on Err
Recv ==
    /\ cons_pc = "recv"
    /\ chan # <<>>
    /\ chan' = Tail(chan)
    /\ IF Head(chan).ok
       THEN /\ cons_cur' = Head(chan).task
            /\ cons_read' = 0
            /\ cur_rows' = 0
            /\ cons_pc' = "next"
            /\ last_yield' = NoYield
       ELSE \* the stream's block returns: chunk_rx is dropped with it
            /\ last_yield' = YieldError(0)
            /\ cons_pc' = "error"
            /\ UNCHANGED <<cons_cur, cons_read, cur_rows>>
    /\ rx_alive' = Head(chan).ok
    /\ UNCHANGED <<scanInput, task_phase, prod_state, prod_error, index_start, notScan>>

\* chunk_rx.recv().await yields None: the channel is empty and every sender
\* (the spawned task and the clones held by its futures) has been dropped;
\* the stream's block returns and chunk_rx is dropped with it
RecvClosed ==
    /\ cons_pc = "recv"
    /\ chan = <<>>
    /\ prod_state = "finished"
    /\ cons_pc' = "end"
    /\ rx_alive' = FALSE
    /\ last_yield' = NoYield
    /\ UNCHANGED <<scanInput, task_phase, prod_state, prod_error, chan,
                   cons_cur, cons_read, index_start, cur_rows, notScan>>

\* batch.next().await yields Some(Ok(batch)): decorate and yield it
NextBatch(rows) ==
    /\ cons_pc = "next"
    /\ cur_rows + rows <= MaxFileRows
    /\ LET task == scan_tasks[cons_cur]
           batch == ReaderBatch(rows)
       IN /\ last_yield' = YieldBatch(cons_cur, cur_rows,
                                      DecorateBatch(batch, task, index_start))
          /\ index_start' = NextIndexStart(batch, task, index_start)
    /\ cons_read' = cons_read + 1
    /\ cur_rows' = cur_rows + rows
    /\ UNCHANGED <<scanInput, task_phase, prod_state, prod_error, chan, rx_alive,
                   cons_pc, cons_cur, notScan>>

\* batch.next().await yields Some(Err(..)): `?` yields the error and ends the
\* stream; its block returns, so chunk_rx and the buffered messages are dropped
NextBatchErr ==
    /\ cons_pc = "next"
    /\ cur_rows < MaxFileRows
    /\ last_yield' = YieldError(cons_cur)
    /\ cons_pc' = "error"
    /\ rx_alive' = FALSE
    /\ chan' = <<>>
    /\ UNCHANGED <<scanInput, task_phase, prod_state, prod_error,
                   cons_cur, cons_read, index_start, cur_rows, notScan>>

\* a consumer that keeps polling the file's stream after it has ended
NextBatchEnd_StaysOnFile ==
    /\ cons_pc = "next"
    /\ last_yield' = NoYield
    /\ UNCHANGED <<scanInput, task_phase, prod_state, prod_error, chan, rx_alive,
                   cons_pc, cons_cur, cons_read, index_start, cur_rows, notScan>>

\* batch.next().await yields None: the file's stream goes out of scope and
\* the consumer is back at chunk_rx.recv()
NextBatchEnd ==
    /\ cons_pc = "next"
    /\ cons_pc' = "recv"
    /\ cons_cur' = 0
    /\ cons_read' = 0
    /\ cur_rows' = 0
    /\ last_yield' = NoYield
    /\ UNCHANGED <<scanInput, task_phase, prod_state, prod_error, chan, rx_alive,
                   index_start, notScan>>

\* the downstream plan drops the stream before it has ended (cancellation):
\* chunk_rx is closed and the buffered messages are released
DropStream ==
    /\ cons_pc \in {"recv", "next"}
    /\ rx_alive
    /\ rx_alive' = FALSE
    /\ chan' = <<>>
    /\ cons_pc' = "dropped"
    /\ cons_cur' = 0
    /\ cons_read' = 0
    /\ index_start' = 0
    /\ cur_rows' = 0
    /\ last_yield' = NoYield
    /\ UNCHANGED <<scanInput, task_phase, prod_state, prod_error, notScan>>

NextScan ==
    \/ StartTask
    \/ \E i \in TaskIds : ReadOk(i)
    \/ \E i \in TaskIds : ReadErr(i)
    \/ \E i \in TaskIds : SendStream(i)
    \/ ProducerOk
    \/ SendError
    \/ Recv
    \/ RecvClosed
    \/ \E rows \in 1..MaxFileRows : NextBatch(rows)
    \/ NextBatchErr
    \/ NextBatchEnd
    \/ DropStream

SpecScan == InitScan /\ [][NextScan]_vars

\* get_batch_stream on a task group that is larger than the channel, in an
\* environment where no read fails and the downstream plan polls the stream
\* until it ends; the files are opened one at a time and hold at most one
\* batch each
BacklogTasks ==
    [i \in 1..(ChannelCapacity + MaxBacklog) |->
        [data_file_path |-> <<"file", i>>,
         data_file_content |-> "Data",
         sequence_number |-> i]]

InitBacklog ==
    /\ scan_tasks = BacklogTasks
    /\ need_seq_num = FALSE
    /\ need_file_path_and_pos = FALSE
    /\ read_file_parallelism = 1
    /\ task_phase = [i \in DOMAIN scan_tasks |-> "queued"]
    /\ prod_state = "running"
    /\ prod_error = "none"
    /\ chan = <<>>
    /\ rx_alive = TRUE
    /\ cons_pc = "recv"
    /\ cons_cur = 0
    /\ cons_read = 0
    /\ index_start = 0
    /\ cur_rows = 0
    /\ last_yield = NoYield
    /\ IdleSplit
    /\ IdlePlan
    /\ IdleComp
    /\ IdleJoin

NextBacklog ==
    \/ StartTask
    \/ \E i \in TaskIds : ReadOk(i)
    \/ \E i \in TaskIds : SendStream(i)
    \/ ProducerOk
    \/ Recv
    \/ RecvClosed
    \/ NextBatch(MaxFileRows)
    \/ NextBatchEnd

\* the downstream plan keeps polling the consumer stream, and the tokio
\* runtime wakes a suspended send once the channel has room
SpecBacklog ==
    /\ InitBacklog
    /\ [][NextBacklog]_vars
    /\ WF_vars(Recv)
    /\ WF_vars(NextBatchEnd)
    /\ WF_vars(\E i \in TaskIds : SendStream(i))

\* get_batch_stream in an environment where no reader fails and the
\* downstream plan polls the stream until it ends; the plan asks for no
\* hidden column
InitPolled ==
    /\ scan_tasks \in ScanTaskLists
    /\ need_seq_num = FALSE
    /\ need_file_path_and_pos = FALSE
    /\ read_file_parallelism \in 0..MaxParallelism
    /\ task_phase = [i \in DOMAIN scan_tasks |-> "queued"]
    /\ prod_state = "running"
    /\ prod_error = "none"
    /\ chan = <<>>
    /\ rx_alive = TRUE
    /\ cons_pc = "recv"
    /\ cons_cur = 0
    /\ cons_read = 0
    /\ index_start = 0
    /\ cur_rows = 0
    /\ last_yield = NoYield
    /\ IdleSplit
    /\ IdlePlan
    /\ IdleComp
    /\ IdleJoin

NextPolled ==
    \/ StartTask
    \/ \E i \in TaskIds : ReadOk(i)
    \/ \E i \in TaskIds : SendStream(i)
    \/ ProducerOk
    \/ Recv
    \/ RecvClosed
    \/ \E rows \in 1..MaxFileRows : NextBatch(rows)
    \/ NextBatchEnd

\* the tokio runtime keeps running the spawned producer (its task futures and
\* the end of try_for_each_concurrent), every reader reaches its end, and the
\* downstream plan keeps polling the consumer
SpecPolled ==
    /\ InitPolled
    /\ [][NextPolled]_vars
    /\ WF_vars(StartTask)
    /\ WF_vars(\E i \in TaskIds : ReadOk(i))
    /\ WF_vars(\E i \in TaskIds : SendStream(i))
    /\ WF_vars(ProducerOk)
    /\ WF_vars(Recv)
    /\ WF_vars(RecvClosed)
    /\ WF_vars(NextBatchEnd)

\* ------------------------------------------------------------------------
\* Properties of get_batch_stream
\* ------------------------------------------------------------------------
ColumnsNamed(batch, name) ==
    {c \in DOMAIN batch.columns : batch.columns[c].name = name}

\* C1: with need_file_path_and_pos, the pos values of every data file are
\* 0, 1, 2, ... in row order: each batch of a data file starts at the number
\* of rows of that file yielded before it, for every data file of the group.
C1_PosRestartsPerDataFile ==
    (/\ need_file_path_and_pos
     /\ last_yield.kind = "batch"
     /\ scan_tasks[last_yield.task].data_file_content = "Data") =>
        \E c \in ColumnsNamed(last_yield, "pos") :
            last_yield.columns[c].values =
                [r \in 1..last_yield.num_rows |-> last_yield.rows_before + r - 1]

\* C15: a decode error while the batches of one file are read is isolated:
\* the consumer leaves a file only to take the next stream from the channel
\* (or because the stream is dropped), so the remaining files of the group
\* are still yielded.
C15_DecodeErrorSkipsFile ==
    [][cons_pc = "next" => cons_pc' \in {"next", "recv", "dropped"}]_vars

\* the Err message of the producer
ErrorMessage == [ok |-> FALSE, task |-> 0]

\* C16: when opening the reader of a task fails, the producer sends that
\* error into the channel as its last message and sends no file stream after
\* it; the consumer surfaces the error after the streams sent before it,
\* yields no batch after the error, and the partition's stream ends.
C16_ErrorState ==
    /\ \A k \in DOMAIN chan :
          ~chan[k].ok => (k = Len(chan) /\ prod_state = "finished" /\ prod_error # "none")
    /\ prod_error = "read" =>
          /\ prod_state \in {"errsend", "finished"}
          /\ \A i \in TaskIds : task_phase[i] \in {"sent", "dropped"}
    /\ (cons_pc = "error" /\ last_yield = YieldError(0)) =>
          (chan = <<>> /\ prod_state = "finished" /\ prod_error # "none")

C16_ErrorStep ==
    /\ prod_state \in {"errsend", "finished"} =>
          /\ task_phase' = task_phase
          /\ \/ chan' \in {chan, <<>>}
             \/ chan # <<>> /\ chan' = Tail(chan)
             \/ prod_state = "errsend" /\ chan' = Append(chan, ErrorMessage)
    /\ (prod_state = "errsend" /\ prod_state' # "errsend" /\ rx_alive) =>
          (prod_state' = "finished" /\ chan' = Append(chan, ErrorMessage))
    /\ (cons_pc = "recv" /\ cons_pc' # "dropped" /\ chan # <<>> /\ chan' # chan
            /\ ~Head(chan).ok) =>
          (last_yield' = YieldError(0) /\ cons_pc' = "error" /\ chan' = <<>>)
    /\ cons_pc = "error" => (cons_pc' = "error" /\ last_yield' = last_yield)

C16_ReadErrorIsLastMessage == [][C16_ErrorStep]_vars /\ []C16_ErrorState

\* a reader failed after another task's stream had been sent, and the
\* consumer has surfaced the error after draining that stream
C16_Witness ==
    /\ prod_error = "read"
    /\ \E i \in TaskIds : task_phase[i] = "sent"
    /\ cons_pc = "error"
    /\ last_yield = YieldError(0)

\* C17: in every state of the producer the number of tasks whose reader is
\* being opened or whose stream waits to be sent is at most
\* read_file_parallelism, whatever value the plan was built with.
C17_InFlightWithinParallelism == Cardinality(InFlight) <= read_file_parallelism

\* a send of task i that waits for room in the channel
SendSuspended(i) ==
    /\ i \in TaskIds
    /\ task_phase[i] = "send"
    /\ rx_alive
    /\ Len(chan) = ChannelCapacity

\* C18: the channel never holds more than 100 messages; a send on a full
\* channel stays suspended until the consumer has received a message; and
\* while the consumer is polled every suspended send eventually completes
\* (only the tasks after the first 100 can find the channel full).
C18_ChannelStep ==
    \A i \in TaskIds :
        SendSuspended(i) =>
            \/ task_phase'[i] = "send"
            \/ ~rx_alive' /\ task_phase'[i] = "dropped"

C18_BoundedChannelNoDeadlock ==
    /\ [](Len(chan) <= 100)
    /\ [][C18_ChannelStep]_vars
    /\ \A i \in (ChannelCapacity + 1)..(ChannelCapacity + MaxBacklog) :
          SendSuspended(i) ~> (task_phase[i] = "sent" \/ ~rx_alive)

\* a send was suspended on the full channel and has completed since
C18_Witness ==
    /\ Len(chan) = ChannelCapacity
    /\ \E i \in TaskIds : i > ChannelCapacity + 1 /\ task_phase[i] = "sent"
    /\ rx_alive

\* C19: once the downstream plan has dropped the stream while the producer
\* is still running, the producer starts the reader of no further task and
\* puts nothing more into the channel.
C19_DropStep ==
    (cons_pc = "dropped" /\ prod_state # "finished") =>
        /\ chan' = chan
        /\ \A i \in TaskIds : task_phase[i] = "queued" => task_phase'[i] # "read"

C19_ProducerStopsAtDrop == [][C19_DropStep]_vars

\* the columns of a batch that are not the reader's own
AddedColumns(batch) == [c \in 1..(Len(batch.columns) - 1) |-> batch.columns[c + 1]]

SeqNumColumn(task, rows) ==
    [name |-> "sys_hidden_seq_num", values |-> [r \in 1..rows |-> task.sequence_number]]

HasColumn(batch, name) == ColumnsNamed(batch, name) # {}

\* C20: a yielded batch has the rows of the reader's batch and keeps the
\* reader's column; a Data batch has sys_hidden_seq_num (the task's sequence
\* number in every row) exactly when need_seq_num is set and file_path and
\* pos exactly when need_file_path_and_pos is set; a PositionDeletes batch has
\* no added column; an EqualityDeletes batch has sys_hidden_seq_num and
\* neither file_path nor pos, whatever the flags.
C20_DecorationByContentType ==
    last_yield.kind = "batch" =>
        LET task == scan_tasks[last_yield.task]
            rows == cur_rows - last_yield.rows_before
            added == AddedColumns(last_yield)
            seqs == {c \in DOMAIN added : added[c].name = "sys_hidden_seq_num"}
        IN /\ last_yield.num_rows = rows
           /\ last_yield.columns[1] = ReaderBatch(rows).columns[1]
           /\ \A c \in DOMAIN last_yield.columns :
                 DOMAIN last_yield.columns[c].values = 1..rows
           /\ \A c \in seqs : added[c] = SeqNumColumn(task, rows)
           /\ CASE task.data_file_content = "Data" ->
                     /\ Cardinality(seqs) = (IF need_seq_num THEN 1 ELSE 0)
                     /\ HasColumn(last_yield, "file_path") <=> need_file_path_and_pos
                     /\ HasColumn(last_yield, "pos") <=> need_file_path_and_pos
                     /\ Len(added) = (IF need_seq_num THEN 1 ELSE 0)
                                        + (IF need_file_path_and_pos THEN 2 ELSE 0)
                [] task.data_file_content = "PositionDeletes" ->
                     added = <<>>
                [] task.data_file_content = "EqualityDeletes" ->
                     added = <<SeqNumColumn(task, rows)>>

\* an EqualityDeletes batch of two rows was yielded by a plan that asks for
\* file_path and pos but not for the sequence number
C20_Witness ==
    /\ last_yield.kind = "batch"
    /\ scan_tasks[last_yield.task].data_file_content = "EqualityDeletes"
    /\ last_yield.num_rows = 2
    /\ ~need_seq_num
    /\ need_file_path_and_pos

\* the tasks whose stream waits in the channel
ChanTasks == {chan[k].task : k \in {j \in DOMAIN chan : chan[j].ok}}

\* C21: the consumer yields the batches of a received stream in the reader's
\* order (each batch starts at the rows of the file yielded before it) and
\* yields all of them before it takes the next stream from the channel; no
\* stream is received twice, so the batches of two files never interleave,
\* whatever order the file opens complete in.
C21_OrderState ==
    /\ \A j, k \in DOMAIN chan : (chan[j].ok /\ chan[k].ok /\ j # k) => chan[j].task # chan[k].task
    /\ \A i \in ChanTasks : task_phase[i] = "sent"
    /\ cons_cur \notin ChanTasks
    /\ cons_pc = "next" => cons_cur # 0
    /\ cons_pc = "recv" => cons_cur = 0
    /\ last_yield.kind = "batch" => (cons_pc = "next" /\ last_yield.task = cons_cur)

C21_OrderStep ==
    /\ (last_yield'.kind = "batch" /\ last_yield' # last_yield) =>
          /\ cons_pc = "next"
          /\ cons_cur' = cons_cur
          /\ last_yield'.task = cons_cur
          /\ last_yield'.rows_before = cur_rows
          /\ cur_rows' = cur_rows + last_yield'.num_rows
    /\ (cons_cur' # cons_cur /\ cons_cur' # 0) =>
          /\ cons_pc = "recv"
          /\ cons_cur = 0
          /\ chan # <<>>
          /\ cons_cur' = Head(chan).task
    /\ \A i \in TaskIds :
          /\ (i \in ChanTasks' /\ i \notin ChanTasks) => task_phase[i] = "send"
          /\ task_phase[i] = "sent" => task_phase'[i] = "sent"

C21_BatchOrderWithinStream == [][C21_OrderStep]_vars /\ []C21_OrderState

\* the reader of file 2 was opened before the reader of file 1: the second
\* batch of file 2 is yielded while the stream of file 1 waits in the channel
C21_Witness ==
    /\ last_yield.kind = "batch"
    /\ last_yield.task = 2
    /\ last_yield.rows_before = 1
    /\ chan = <<[ok |-> TRUE, task |-> 1]>>

\* C22: when no read fails and the consumer is polled, the partition's
\* stream ends; every task of the group has its stream received (once, by
\* C21's step rule, and left only at the reader's end), only tasks of the
\* group are yielded, and the channel closes only when the producer has sent
\* the stream of every task.
C22_EndState ==
    /\ cons_pc = "end" =>
          /\ \A i \in TaskIds : task_phase[i] = "sent"
          /\ chan = <<>>
          /\ prod_state = "finished"
          /\ prod_error = "none"
    /\ last_yield.kind = "batch" => last_yield.task \in TaskIds
    /\ cons_cur \in TaskIds \cup {0}

C22_DrainStep ==
    /\ chan' # chan =>
          \/ \E i \in TaskIds \ ChanTasks :
                /\ task_phase[i] = "send"
                /\ chan' = Append(chan, [ok |-> TRUE, task |-> i])
          \/ /\ chan # <<>>
             /\ chan' = Tail(chan)
             /\ cons_cur = 0
             /\ cons_cur' = Head(chan).task
    /\ (cons_cur # 0 /\ cons_cur' # cons_cur) =>
          (cons_pc = "next" /\ cons_pc' = "recv" /\ cons_cur' = 0)
    /\ cons_pc' = "end" => (chan = <<>> /\ \A i \in TaskIds : task_phase[i] = "sent")

C22_StreamCompletes ==
    /\ []C22_EndState
    /\ [][C22_DrainStep]_vars
    /\ <>(cons_pc = "end")
    /\ \A i \in 1..MaxScanTasks :
          (i \in TaskIds /\ task_phase[i] = "queued") ~> (cons_cur = i)

\* a group of two files read one at a time has been yielded to its end
C22_Witness ==
    /\ cons_pc = "end"
    /\ Len(scan_tasks) = 2
    /\ read_file_parallelism = 1
    /\ \A i \in TaskIds : task_phase[i] = "sent"

\* ------------------------------------------------------------------------
\* get_tasks_from_table
\* ------------------------------------------------------------------------

\* The files of the table: the content type of a file is part of its identity
\* (one URI never names files of two content types).
PlanFiles ==
    ({"Data"} \X (1..MaxDataFiles))
        \cup ({"PositionDeletes", "EqualityDeletes"} \X (1..MaxDeleteFiles))

\* an entry of a data task's `deletes` as the scan builds it
DeleteTaskOf(path) ==
    [data_file_path |-> path,
     data_file_content |-> path[1],
     equality_ids |-> IF path[1] = "EqualityDeletes" THEN <<1>> ELSE <<>>,
     project_field_ids |-> <<1, 2>>]

\* the tasks the scan's stream can yield
PlannedTasks ==
    {[data_file_path |-> path,
      data_file_content |-> path[1],
      deletes |-> [k \in DOMAIN ds |-> DeleteTaskOf(ds[k])]] :
        path \in PlanFiles, ds \in SeqsUpTo(PlanFiles, MaxDeletes)}

\* HashMap::insert on a map kept as a sequence of [key, value] entries
HashMapInsert_AsVecPush(map, key, value) ==
    Append(map, [key |-> key, value |-> value])

HashMapInsert(map, key, value) ==
    IF \E e \in DOMAIN map : map[e].key = key
    THEN [e \in DOMAIN map |->
            IF map[e].key = key THEN [key |-> key, value |-> value] ELSE map[e]]
    ELSE Append(map, [key |-> key, value |-> value])

\* the match on delete_task.data_file_content for one entry of task.deletes;
\* maps is [pos, eq, panic]
RouteDelete_PositionAlways(maps, delete_task) ==
    IF delete_task.data_file_content = "PositionDeletes"
    THEN [maps EXCEPT !.pos = HashMapInsert(maps.pos, delete_task.data_file_path,
                                  [delete_task EXCEPT !.project_field_ids = <<>>])]
    ELSE IF delete_task.data_file_content = "EqualityDeletes"
    THEN [maps EXCEPT
            !.pos = HashMapInsert(maps.pos, delete_task.data_file_path,
                        [delete_task EXCEPT !.project_field_ids = <<>>]),
            !.eq = HashMapInsert(maps.eq, delete_task.data_file_path,
                        [delete_task EXCEPT !.project_field_ids = delete_task.equality_ids])]
    ELSE [maps EXCEPT !.panic = TRUE]

RouteDelete(maps, delete_task) ==
    IF delete_task.data_file_content = "PositionDeletes"
    THEN [maps EXCEPT !.pos = HashMapInsert(maps.pos, delete_task.data_file_path,
                                  [delete_task EXCEPT !.project_field_ids = <<>>])]
    ELSE IF delete_task.data_file_content = "EqualityDeletes"
    THEN [maps EXCEPT !.eq = HashMapInsert(maps.eq, delete_task.data_file_path,
                                  [delete_task EXCEPT !.project_field_ids = delete_task.equality_ids])]
    ELSE \* unreachable!()
         [maps EXCEPT !.panic = TRUE]

\* for delete_task in task.deletes.iter() { .. }, stopping at a panic
RECURSIVE RouteDeletes(_, _)
RouteDeletes(maps, deletes) ==
    IF deletes = <<>> \/ maps.panic
    THEN maps
    ELSE RouteDeletes(RouteDelete(maps, Head(deletes)), Tail(deletes))

\* every ordering of the values of a map: HashMap::into_values().collect()
IntoValues(map) ==
    {[k \in DOMAIN map |-> map[perm[k]].value] :
        perm \in {f \in [DOMAIN map -> DOMAIN map] :
                     \A a, b \in DOMAIN map : a # b => f[a] # f[b]}}

InitPlan ==
    /\ plan_pc = "start"
    /\ position_delete_files = <<>>
    /\ equality_delete_files = <<>>
    /\ data_files = <<>>
    /\ input_file_scan_tasks = NoTasks
    /\ IdleSplit
    /\ IdleScan
    /\ IdleComp
    /\ IdleJoin

\* current_snapshot_id().unwrap(), table.scan()..build()?, scan.plan_files().await?
PlanStart ==
    /\ plan_pc = "start"
    /\ plan_pc' \in {"loop", "err", "panic"}
    /\ UNCHANGED <<position_delete_files, equality_delete_files, data_files,
                   input_file_scan_tasks, notPlan>>

\* one iteration of `for task in file_scan_stream` with `task?` being Ok(task)
PlanTask ==
    /\ plan_pc = "loop"
    /\ Len(data_files) < MaxPlanTasks
    /\ \E task \in PlannedTasks :
       IF task.data_file_content = "Data"
       THEN LET maps == RouteDeletes([pos |-> position_delete_files,
                                      eq |-> equality_delete_files,
                                      panic |-> FALSE], task.deletes)
            IN IF maps.panic
               THEN /\ plan_pc' = "panic"
                    /\ UNCHANGED <<position_delete_files, equality_delete_files, data_files>>
               ELSE /\ position_delete_files' = maps.pos
                    /\ equality_delete_files' = maps.eq
                    /\ data_files' = Append(data_files, task)
                    /\ UNCHANGED plan_pc
       ELSE \* unreachable!()
            /\ plan_pc' = "panic"
            /\ UNCHANGED <<position_delete_files, equality_delete_files, data_files>>
    /\ UNCHANGED <<input_file_scan_tasks, notPlan>>

\* the stream yields an Err: `task?` returns it
PlanStreamErr ==
    /\ plan_pc = "loop"
    /\ plan_pc' = "err"
    /\ UNCHANGED <<position_delete_files, equality_delete_files, data_files,
                   input_file_scan_tasks, notPlan>>

\* the stream ends: Ok(InputFileScanTasks { .. })
PlanReturn ==
    /\ plan_pc = "loop"
    /\ \E pos \in IntoValues(position_delete_files), eq \in IntoValues(equality_delete_files) :
          input_file_scan_tasks' = [data_files |-> data_files,
                                    position_delete_files |-> pos,
                                    equality_delete_files |-> eq]
    /\ plan_pc' = "done"
    /\ UNCHANGED <<position_delete_files, equality_delete_files, data_files, notPlan>>

NextPlan ==
    \/ PlanStart
    \/ PlanTask
    \/ PlanStreamErr
    \/ PlanReturn

SpecPlan == InitPlan /\ [][NextPlan]_vars

\* ------------------------------------------------------------------------
\* Properties of get_tasks_from_table
\* ------------------------------------------------------------------------
Uris(tasks) == {tasks[k].data_file_path : k \in DOMAIN tasks}

EntriesWithUri(tasks, uri) == {k \in DOMAIN tasks : tasks[k].data_file_path = uri}

DeleteVector(kind) ==
    IF kind = "PositionDeletes"
    THEN input_file_scan_tasks.position_delete_files
    ELSE input_file_scan_tasks.equality_delete_files

ReferencedDeletes ==
    UNION {Range(input_file_scan_tasks.data_files[d].deletes) :
              d \in DOMAIN input_file_scan_tasks.data_files}

\* C7: in a result, every delete task x of every data task has exactly one
\* entry with its URI in the delete vector of its kind, however many data
\* tasks reference it, and the delete vectors hold no unreferenced URI.
C7_DeletesDeduplicated ==
    plan_pc = "done" =>
        /\ \A x \in ReferencedDeletes :
              Cardinality(EntriesWithUri(DeleteVector(x.data_file_content),
                                         x.data_file_path)) = 1
        /\ \A kind \in {"PositionDeletes", "EqualityDeletes"} :
              \A k \in DOMAIN DeleteVector(kind) :
                  \E x \in ReferencedDeletes :
                      /\ x.data_file_path = DeleteVector(kind)[k].data_file_path
                      /\ x.data_file_content = kind

\* two data tasks reference the same position-delete file
C7_Witness ==
    /\ plan_pc = "done"
    /\ Len(input_file_scan_tasks.data_files) >= 2
    /\ \E x \in ReferencedDeletes :
          /\ x.data_file_content = "PositionDeletes"
          /\ \A d \in DOMAIN input_file_scan_tasks.data_files :
                x \in Range(input_file_scan_tasks.data_files[d].deletes)
    /\ Len(input_file_scan_tasks.position_delete_files) = 1

\* C8: in a result, the URI sets of the data tasks, of the position-delete
\* tasks and of the equality-delete tasks are pairwise disjoint.
C8_UriSetsDisjoint ==
    plan_pc = "done" =>
        LET d == Uris(input_file_scan_tasks.data_files)
            p == Uris(input_file_scan_tasks.position_delete_files)
            e == Uris(input_file_scan_tasks.equality_delete_files)
        IN d \cap p = {} /\ d \cap e = {} /\ p \cap e = {}

C8_Witness ==
    /\ plan_pc = "done"
    /\ input_file_scan_tasks.data_files # <<>>
    /\ input_file_scan_tasks.position_delete_files # <<>>
    /\ input_file_scan_tasks.equality_delete_files # <<>>

\* C14: when the planner meets a top-level task that is not Data, or an entry
\* of a data task's deletes that is neither PositionDeletes nor
\* EqualityDeletes, get_tasks_from_table returns an Err value: the loop over
\* the scan's stream is left only by returning Ok or Err.
C14_UnexpectedContentReturnsErr ==
    [][plan_pc = "loop" => plan_pc' \in {"loop", "done", "err"}]_vars

\* ------------------------------------------------------------------------
\* Compaction::full_compact, with the catalog and the table it works on
\* ------------------------------------------------------------------------

\* a manifest entry's DataFile
DataFileOf(path) == [file_path |-> path, content_type |-> path[1]]

RECURSIVE Flatten(_)
Flatten(ss) == IF ss = <<>> THEN <<>> ELSE Head(ss) \o Flatten(Tail(ss))

NoDuplicates(s) == \A a, b \in DOMAIN s : a # b => s[a] # s[b]

\* cut a list of entries into manifests of the given (positive) sizes
RECURSIVE Chunks(_, _)
Chunks(entries, sizes) ==
    IF sizes = <<>> THEN <<>>
    ELSE <<SubSeq(entries, 1, Head(sizes))>>
            \o Chunks(SubSeq(entries, Head(sizes) + 1, Len(entries)), Tail(sizes))

\* the manifests a snapshot can list: at most MaxEntries entries in at most
\* MaxManifests non-empty manifests, every file listed once
ManifestLists ==
    {Chunks([k \in DOMAIN ps |-> DataFileOf(ps[k])], sizes) :
        <<ps, sizes>> \in
            {x \in SeqsUpTo(PlanFiles, MaxEntries) \X SeqsUpTo(1..MaxEntries, MaxManifests) :
                NoDuplicates(x[1]) /\ SumSeq(x[2]) = Len(x[1])}}

SnapshotFiles(snapshot) == Range(Flatten(snapshot.manifests))

\* the DataFiles the executor can return: freshly named data files
OutputFileLists ==
    {[k \in 1..n |-> DataFileOf(<<"Data", "out", k>>)] : n \in 0..MaxOutputFiles}

\* get_old_files_from_table: the match on i.content_type() over every entry
\* of every manifest of the manifest list
OldFiles_SkipPositionDeletes(manifests) ==
    LET entries == Flatten(manifests)
    IN [data_file |-> SelectSeq(entries, LAMBDA i : i.content_type = "Data"),
        delete_file |-> SelectSeq(entries, LAMBDA i : i.content_type = "EqualityDeletes")]

OldFiles(manifests) ==
    LET entries == Flatten(manifests)
    IN [data_file |-> SelectSeq(entries, LAMBDA i : i.content_type = "Data"),
        delete_file |-> SelectSeq(entries, LAMBDA i :
                            i.content_type \in {"EqualityDeletes", "PositionDeletes"})]

\* the snapshot a committed rewrite action produces from its base: the files
\* marked for removal leave, the added files come in a new manifest
RewrittenSnapshot(base, action) ==
    LET kept == [m \in DOMAIN base.manifests |->
                    SelectSeq(base.manifests[m], LAMBDA i : i \notin Range(action.deleted))]
    IN [id |-> base.id + 1,
        by |-> "compaction",
        manifests |-> SelectSeq(<<action.added>> \o kept, LAMBDA m : m # <<>>)]

InitCompact ==
    /\ catalog_snapshot \in
          {NoSnapshot} \cup {[id |-> 1, by |-> "init", manifests |-> ms] : ms \in ManifestLists}
    /\ table = NoSnapshot
    /\ comp_pc = "load"
    /\ old_data_files = <<>>
    /\ old_delete_files = <<>>
    /\ output_data_files = <<>>
    /\ rewrite_action = EmptyAction
    /\ comp_result = "none"
    /\ failed_step = "none"
    /\ commit_calls = 0
    /\ other_writes = 0
    /\ IdleSplit
    /\ IdleScan
    /\ IdlePlan
    /\ IdleJoin

\* `?` on an Err: the call returns Err
ReturnErr(step) ==
    /\ comp_pc' = "done"
    /\ comp_result' = "Err"
    /\ failed_step' = step

\* unwrap() on None / Err, unreachable!(): the call panics
Panic(step) ==
    /\ comp_pc' = "done"
    /\ comp_result' = "panic"
    /\ failed_step' = step

\* self.catalog.load_table(&table_ident).await?
LoadTable ==
    /\ comp_pc = "load"
    /\ \/ /\ table' = catalog_snapshot
          /\ comp_pc' = "old_files"
          /\ UNCHANGED <<comp_result, failed_step>>
       \/ /\ ReturnErr("load")
          /\ UNCHANGED table
    /\ UNCHANGED <<catalog_snapshot, old_data_files, old_delete_files, output_data_files,
                   rewrite_action, commit_calls, other_writes, notComp>>

\* get_old_files_from_table(table.clone()).await?
GetOldFilesFromTable ==
    /\ comp_pc = "old_files"
    /\ \/ /\ table # NoSnapshot
          /\ old_data_files' = OldFiles(table.manifests).data_file
          /\ old_delete_files' = OldFiles(table.manifests).delete_file
          /\ comp_pc' = "plan"
          /\ UNCHANGED <<comp_result, failed_step>>
       \/ \* current_snapshot().unwrap() without a snapshot, or unwrap() of a
          \* failed load_manifest_list / load_manifest
          /\ Panic("old_files")
          /\ UNCHANGED <<old_data_files, old_delete_files>>
    /\ UNCHANGED <<catalog_snapshot, table, output_data_files, rewrite_action,
                   commit_calls, other_writes, notComp>>

\* get_tasks_from_table(table.clone()).await? : its result only feeds the
\* executor's request; SpecPlan models the function itself
GetTasksFromTable ==
    /\ comp_pc = "plan"
    /\ \/ /\ comp_pc' = "rewrite"
          /\ UNCHANGED <<comp_result, failed_step>>
       \/ ReturnErr("plan")
       \/ Panic("plan")
    /\ UNCHANGED <<catalog_snapshot, table, old_data_files, old_delete_files,
                   output_data_files, rewrite_action, commit_calls, other_writes, notComp>>

\* DefaultLocationGenerator::new(..).unwrap() and
\* DataFusionExecutor::default().rewrite_files(request).await?
RewriteFiles ==
    /\ comp_pc = "rewrite"
    /\ \/ /\ output_data_files' \in OutputFileLists
          /\ comp_pc' = "txn"
          /\ UNCHANGED <<comp_result, failed_step>>
       \/ /\ ReturnErr("rewrite")
          /\ UNCHANGED output_data_files
       \/ /\ Panic("rewrite")
          /\ UNCHANGED output_data_files
    /\ UNCHANGED <<catalog_snapshot, table, old_data_files, old_delete_files,
                   rewrite_action, commit_calls, other_writes, notComp>>

\* Transaction::new, txn.rewrite_files(None, vec![])?, add_data_files(..)?,
\* delete_files(data_files)?, delete_files(delete_files)?
BuildRewriteAction ==
    /\ comp_pc = "txn"
    /\ \/ /\ rewrite_action' = [added |-> output_data_files,
                                deleted |-> old_data_files \o old_delete_files]
          /\ comp_pc' = "apply"
          /\ UNCHANGED <<comp_result, failed_step>>
       \/ /\ ReturnErr("txn")
          /\ UNCHANGED rewrite_action
    /\ UNCHANGED <<catalog_snapshot, table, old_data_files, old_delete_files,
                   output_data_files, commit_calls, other_writes, notComp>>

\* rewrite_action.apply().await?
ApplyRewriteAction ==
    /\ comp_pc = "apply"
    /\ \/ /\ comp_pc' = "commit"
          /\ UNCHANGED <<comp_result, failed_step>>
       \/ ReturnErr("apply")
    /\ UNCHANGED <<catalog_snapshot, table, old_data_files, old_delete_files,
                   output_data_files, rewrite_action, commit_calls, other_writes, notComp>>

\* a commit that, when the catalog rejects it, starts over from load_table
Commit_RetryOnFailure ==
    /\ comp_pc = "commit"
    /\ commit_calls' = commit_calls + 1
    /\ \/ /\ catalog_snapshot.id = table.id
          /\ catalog_snapshot' = RewrittenSnapshot(table, rewrite_action)
          /\ comp_pc' = "done"
          /\ comp_result' = "Ok"
          /\ UNCHANGED failed_step
       \/ /\ comp_pc' = "load"
          /\ UNCHANGED <<catalog_snapshot, comp_result, failed_step>>
    /\ UNCHANGED <<table, old_data_files, old_delete_files, output_data_files,
                   rewrite_action, other_writes, notComp>>

\* txn.commit(self.catalog.as_ref()).await? ; Ok(RewriteFilesStat { .. })
\* The catalog accepts the commit only on the snapshot the table was loaded at.
Commit ==
    /\ comp_pc = "commit"
    /\ commit_calls' = commit_calls + 1
    /\ \/ /\ catalog_snapshot.id = table.id
          /\ catalog_snapshot' = RewrittenSnapshot(table, rewrite_action)
          /\ comp_pc' = "done"
          /\ comp_result' = "Ok"
          /\ UNCHANGED failed_step
       \/ /\ ReturnErr("commit")
          /\ UNCHANGED catalog_snapshot
    /\ UNCHANGED <<table, old_data_files, old_delete_files, output_data_files,
                   rewrite_action, other_writes, notComp>>

\* another writer commits a snapshot to the same table while the call runs
OtherWriter ==
    /\ comp_pc \notin {"idle", "done"}
    /\ other_writes < MaxOtherWrites
    /\ other_writes' = other_writes + 1
    /\ catalog_snapshot' =
          [id |-> catalog_snapshot.id + 1,
           by |-> "other",
           manifests |-> Append(catalog_snapshot.manifests,
                                <<DataFileOf(<<"Data", "other", other_writes + 1>>)>>)]
    /\ UNCHANGED <<table, comp_pc, old_data_files, old_delete_files, output_data_files,
                   rewrite_action, comp_result, failed_step, commit_calls, notComp>>

NextCompact ==
    \/ LoadTable
    \/ GetOldFilesFromTable
    \/ GetTasksFromTable
    \/ RewriteFiles
    \/ BuildRewriteAction
    \/ ApplyRewriteAction
    \/ Commit
    \/ OtherWriter

SpecCompact == InitCompact /\ [][NextCompact]_vars

\* ------------------------------------------------------------------------
\* Properties of full_compact
\* ------------------------------------------------------------------------
StepsBeforeCommit == {"load", "old_files", "plan", "rewrite", "txn", "apply"}

\* C9: the commit is the last step and is reached only after loading,
\* enumerating, planning, rewriting and applying have succeeded; when one of
\* these steps fails the call returns an error, the commit is never invoked
\* and this call leaves the table's current snapshot as it was.
C9_FailureReturnsErrAndNeverCommits ==
    /\ commit_calls > 0 => (comp_pc = "done" /\ failed_step \notin StepsBeforeCommit)
    /\ (comp_pc = "done" /\ failed_step \in StepsBeforeCommit) =>
          /\ comp_result = "Err"
          /\ commit_calls = 0
          /\ catalog_snapshot.by # "compaction"

\* C10: the committed rewrite adds every output data file of the executor
\* and marks for removal exactly the entries of the manifests of the snapshot
\* the table was loaded at, each once; after a successful commit none of these
\* old files is in the new snapshot and every output file is.
C10_RewriteReplacesExactlyOldFiles ==
    /\ comp_pc \in {"apply", "commit"} \/ comp_result = "Ok" =>
          /\ rewrite_action.added = output_data_files
          /\ NoDuplicates(rewrite_action.deleted)
          /\ Range(rewrite_action.deleted) = SnapshotFiles(table)
    /\ comp_result = "Ok" =>
          /\ catalog_snapshot.by = "compaction"
          /\ SnapshotFiles(catalog_snapshot) \cap SnapshotFiles(table) = {}
          /\ Range(output_data_files) \subseteq SnapshotFiles(catalog_snapshot)

C10_Witness ==
    /\ comp_result = "Ok"
    /\ Len(table.manifests) >= 2
    /\ {f.content_type : f \in SnapshotFiles(table)} =
          {"Data", "PositionDeletes", "EqualityDeletes"}
    /\ output_data_files # <<>>

\* C11: a full compaction invokes the catalog commit at most once per call;
\* a failed commit ends the call with that error, with no retry and no
\* reload of the table, and the call returns Ok only when its commit was
\* accepted by the catalog.
C11_CommitStep ==
    /\ commit_calls' # commit_calls =>
          /\ commit_calls = 0
          /\ comp_pc' = "done"
          /\ comp_result' \in {"Ok", "Err"}
          /\ comp_result' = "Err" =>
                (failed_step' = "commit" /\ catalog_snapshot' = catalog_snapshot)
          /\ comp_result' = "Ok" =>
                catalog_snapshot' = RewrittenSnapshot(table, rewrite_action)
    /\ table' # table => (comp_pc = "load" /\ commit_calls = 0)
    /\ comp_pc = "done" => (comp_pc' = "done" /\ comp_result' = comp_result)

C11_CommitState ==
    /\ commit_calls <= 1
    /\ comp_result = "Ok" => (commit_calls = 1 /\ catalog_snapshot.by = "compaction")
    /\ (comp_pc = "done" /\ failed_step = "commit") =>
          (comp_result = "Err" /\ commit_calls = 1 /\ catalog_snapshot.by # "compaction")

C11_CommitAtMostOnceNoRetry == [][C11_CommitStep]_vars /\ []C11_CommitState

\* the commit was rejected because another writer advanced the table
C11_Witness ==
    /\ comp_pc = "done"
    /\ comp_result = "Err"
    /\ failed_step = "commit"
    /\ commit_calls = 1
    /\ catalog_snapshot.by = "other"
    /\ catalog_snapshot.id # table.id

\* C13: when the loaded table has no current snapshot, enumerating the old
\* files fails with an error that the call returns as an Err value; nothing
\* is written and nothing is committed.
C13_NoSnapshotReturnsErr ==
    (table = NoSnapshot /\ comp_pc \notin {"load", "old_files"} /\ failed_step # "load") =>
        /\ comp_pc = "done"
        /\ failed_step = "old_files"
        /\ comp_result = "Err"
        /\ output_data_files = <<>>
        /\ commit_calls = 0

\* ------------------------------------------------------------------------
\* The equality-delete stage: one data file and the equality-delete files
\* applied to it, read through the scan's batch decoration
\* ------------------------------------------------------------------------

\* the equality key columns of the table and the values a key column holds
EqualityKeyColumns == <<"k1", "k2">>
KeyValues == BOOLEAN
Keys == [DOMAIN EqualityKeyColumns -> KeyValues]

\* a RecordBatch as the reader yields it for rows with the given keys
KeyedBatch(keys) ==
    [num_rows |-> Len(keys),
     columns |-> [c \in DOMAIN EqualityKeyColumns |->
                    [name |-> EqualityKeyColumns[c],
                     values |-> [r \in DOMAIN keys |-> keys[r][c]]]]]

\* the FileScanTasks of the stage, each with the rows its file holds
JoinTask(content, path, seq, keys) ==
    [data_file_path |-> path, data_file_content |-> content, sequence_number |-> seq,
     keys |-> keys]

DataTasks ==
    {JoinTask("Data", <<"Data", 1>>, seq, keys) :
        seq \in 1..MaxSeq, keys \in SeqsUpTo(Keys, MaxJoinRows) \ {<<>>}}

EqualityDeleteTaskLists ==
    {[i \in DOMAIN ts |-> JoinTask("EqualityDeletes", <<"EqualityDeletes", i>>,
                                   ts[i][1], <<ts[i][2]>>)] :
        ts \in SeqsUpTo((1..MaxSeq) \X Keys, MaxEqDeleteTasks)}

\* the values of the column called `name` of a batch
Column(batch, name) ==
    batch.columns[CHOOSE c \in DOMAIN batch.columns : batch.columns[c].name = name].values

\* a delete row applies to a data row: equal on every equality key column
\* and of a strictly greater sys_hidden_seq_num
DeleteApplies(data, r, delete, d) ==
    /\ \A c \in DOMAIN EqualityKeyColumns :
          Column(delete, EqualityKeyColumns[c])[d] = Column(data, EqualityKeyColumns[c])[r]
    /\ Column(delete, "sys_hidden_seq_num")[d] > Column(data, "sys_hidden_seq_num")[r]

\* the left anti-join of the data batch with the equality-delete batches
EqualityAntiJoin(data, deletes) ==
    {r \in 1..data.num_rows :
        ~ \E j \in DOMAIN deletes : \E d \in 1..deletes[j].num_rows :
              DeleteApplies(data, r, deletes[j], d)}

\* the stage reads its data file through a scan that has need_seq_num set
InitJoin ==
    /\ eq_pc = "scan"
    /\ eq_data_task \in DataTasks
    /\ eq_delete_tasks \in EqualityDeleteTaskLists
    /\ eq_data_batch = <<>>
    /\ eq_delete_batches = <<>>
    /\ eq_survivors = {}
    /\ scan_tasks = <<>>
    /\ need_seq_num = TRUE
    /\ need_file_path_and_pos \in BOOLEAN
    /\ read_file_parallelism = 1
    /\ task_phase = <<>>
    /\ prod_state = "idle"
    /\ prod_error = "none"
    /\ chan = <<>>
    /\ rx_alive = FALSE
    /\ cons_pc = "idle"
    /\ cons_cur = 0
    /\ cons_read = 0
    /\ index_start = 0
    /\ cur_rows = 0
    /\ last_yield = NoYield
    /\ IdleSplit
    /\ IdlePlan
    /\ IdleComp

\* the scan's consumer loop yields the batch of the data file and the
\* batch of every equality-delete file
ScanBatches ==
    /\ eq_pc = "scan"
    /\ eq_data_batch' = DecorateBatch(KeyedBatch(eq_data_task.keys), eq_data_task, 0)
    /\ eq_delete_batches' =
          [i \in DOMAIN eq_delete_tasks |->
              DecorateBatch(KeyedBatch(eq_delete_tasks[i].keys), eq_delete_tasks[i], 0)]
    /\ eq_pc' = "join"
    /\ UNCHANGED <<eq_data_task, eq_delete_tasks, eq_survivors, notJoin>>

\* every input has been read: the anti-join lets the surviving rows through
RunEqualityAntiJoin ==
    /\ eq_pc = "join"
    /\ eq_survivors' = EqualityAntiJoin(eq_data_batch, eq_delete_batches)
    /\ eq_pc' = "done"
    /\ UNCHANGED <<eq_data_task, eq_delete_tasks, eq_data_batch, eq_delete_batches, notJoin>>

NextJoin ==
    \/ ScanBatches
    \/ RunEqualityAntiJoin

SpecJoin == InitJoin /\ [][NextJoin]_vars

\* ------------------------------------------------------------------------
\* Properties of the equality-delete stage
\* ------------------------------------------------------------------------

\* a delete row of task `del` matches row r of the data task on every key column
KeysMatch(r, del) == \E d \in DOMAIN del.keys : del.keys[d] = eq_data_task.keys[r]

\* C12: a data row is removed by the equality-delete stage if and only if
\* some equality-delete row matches it on every equality key column and was
\* read from a task whose sequence number is strictly greater than the one of
\* the data row's task; a delete of an equal or smaller sequence number
\* leaves the row in the output.
C12_RemovedIffNewerMatchingDelete ==
    eq_pc = "done" =>
        \A r \in DOMAIN eq_data_task.keys :
            (r \notin eq_survivors) <=>
                \E j \in DOMAIN eq_delete_tasks :
                    /\ KeysMatch(r, eq_delete_tasks[j])
                    /\ eq_delete_tasks[j].sequence_number > eq_data_task.sequence_number

\* a row removed by a newer delete of its key, while a delete of the same key
\* that is not newer than the row was applied to it too
C12_Witness ==
    /\ eq_pc = "done"
    /\ 1 \notin eq_survivors
    /\ Len(eq_delete_tasks) = 2
    /\ \E j \in DOMAIN eq_delete_tasks :
          /\ KeysMatch(1, eq_delete_tasks[j])
          /\ eq_delete_tasks[j].sequence_number <= eq_data_task.sequence_number
    /\ \E j \in DOMAIN eq_delete_tasks :
          /\ KeysMatch(1, eq_delete_tasks[j])
          /\ eq_delete_tasks[j].sequence_number > eq_data_task.sequence_number

====
